---------------------------- MODULE Spec2Model ----------------------------
(***************************************************************************)
(* amqp-manager: the connection/channel lifecycle state machine            *)
(* (AmqpConnectionFsm, a machina FSM) and the AmqpManager facade of         *)
(* src/amqp_manager.js.                                                     *)
(*                                                                          *)
(* Every JavaScript callback (a promise continuation, a timer callback, an  *)
(* event listener, a public method call) runs to completion, so each is one *)
(* action.  A handler that calls transition() runs the entered state's      *)
(* _onEnter and the listeners of every event it emits inside that same      *)
(* action.  The program state is gathered in one record (St) so that the    *)
(* nested synchronous calls compose as operators from record to record.     *)
(*                                                                          *)
(* The transport client (amqplib) is the environment: it resolves or        *)
(* rejects connect / createChannel / declarations and closes handles.  A    *)
(* connection carries at most one channel here (assert._onEnter runs once   *)
(* per stored connection), so a channel has the index of its connection.    *)
(***************************************************************************)
EXTENDS Integers, Sequences, FiniteSets, Bags, TLC

\* Bounds of the exploration.
MaxFaults == 2        \* failures the transport may inject in one run of Spec
MgrFaults == 1        \* failures the transport may inject in one run of MgrSpec
MaxCallers == 2       \* manager.channel() calls in one run
MaxCloseCalls == 1    \* manager.close() calls in one run
MaxOpens == 2         \* direct fsm.open() calls in one run
MaxAttempts == 20     \* connect failures in one run of BackoffSpec
FsmFaults == 1        \* failures the transport may inject in one run of FsmSpec
DeepFaults == 3       \* failures the transport may inject in one run of DeepSpec
TopoFaults == 2       \* failures the transport may inject in one run of TopoSpec
LiveFaults == 1       \* failures the transport may inject in one run of LiveSpec
LiteFaults == 2       \* failures the transport may inject in one run of LiteSpec

\* The topology part of the configuration handed to the constructor.
\* DefaultTopology: what _.defaultsDeep fills in (nothing to declare).
\* ExampleTopology: exchange E, queue Q and the binding of Q to E.
DefaultTopology == [exchanges |-> {}, queues |-> {}, bindings |-> {}]
ExampleTopology == [exchanges |-> {"E"}, queues |-> {"Q"}, bindings |-> {"Q-E"}]
\* TwoTopology: two exchanges, two queues and one binding.
TwoTopology ==
  [exchanges |-> {"E1", "E2"}, queues |-> {"Q1", "Q2"}, bindings |-> {"Q1-E1"}]

VARIABLES
  config,         \* this.config: exchanges, queues, bindings (never mutated)
  state,          \* machina: the FSM's current state
  memory,         \* this.memory: connection, channel, reconnects (0 = undefined)
  timers,         \* bag of pending reconnect timers, each with its captured
                  \* `reconnects` and its delay `wait`
  connecting,     \* Amqp.connect() promises in flight
  conns,          \* sequence of transport connections ever obtained
  chans,          \* chans[i]: the channel requested on conns[i], with the
                  \* declarations in flight (pending) and completed (done)
  faults,         \* failures injected so far
  fsmLast,        \* the event the FSM emitted last: its name, its argument
                  \* (channel of 'ready', reconnects of 'reconnect') and the
                  \* wait_time_ms of a 'reconnect' event; resolved: an
                  \* Amqp.connect() succeeded since the last 'reconnect'
  readies,        \* 'ready' events the FSM emitted so far
  fatalSeen,      \* assert.channel_error met a PRECONDITION-FAILED error
  closed,         \* manager.closed (in the simpler lifecycle: fsm.closed)
  cached,         \* manager._channel (0 = null)
  started,        \* manager.started
  callers,        \* sequence of manager.channel() calls
  closeCalls,     \* sequence of manager.close() promises
  mgrLast,        \* the event the manager emitted last
  mgrRepeat,      \* the manager emitted the same event twice in a row
  fsmOpens        \* fsm.open() calls so far

vars == << config, state, memory, timers, connecting, conns, chans, faults, fsmLast,
           readies, fatalSeen, closed, cached, started, callers,
           closeCalls, mgrLast, mgrRepeat, fsmOpens >>

\* The program state as one record.
St ==
  [ state |-> state, memory |-> memory, timers |-> timers,
    connecting |-> connecting, conns |-> conns, chans |-> chans,
    faults |-> faults, fsmLast |-> fsmLast, readies |-> readies,
    fatalSeen |-> fatalSeen,
    closed |-> closed, cached |-> cached, started |-> started,
    callers |-> callers, closeCalls |-> closeCalls, mgrLast |-> mgrLast,
    mgrRepeat |-> mgrRepeat, fsmOpens |-> fsmOpens ]

Commit(s) ==
  /\ config' = config
  /\ state' = s.state
  /\ memory' = s.memory
  /\ timers' = s.timers
  /\ connecting' = s.connecting
  /\ conns' = s.conns
  /\ chans' = s.chans
  /\ faults' = s.faults
  /\ fsmLast' = s.fsmLast
  /\ readies' = s.readies
  /\ fatalSeen' = s.fatalSeen
  /\ closed' = s.closed
  /\ cached' = s.cached
  /\ started' = s.started
  /\ callers' = s.callers
  /\ closeCalls' = s.closeCalls
  /\ mgrLast' = s.mgrLast
  /\ mgrRepeat' = s.mgrRepeat
  /\ fsmOpens' = s.fsmOpens

InProgress == {"exchanges", "queues", "bindings"}

NoChan ==
  [status |-> "none", listener |-> FALSE, stage |-> "none", pending |-> {},
   done |-> {}]

-----------------------------------------------------------------------------
(* AmqpManager: the listeners it registers on the FSM.                      *)

\* AmqpManager's own emit('connected') / emit('disconnected').
mgrEmit(s, ev) ==
  [s EXCEPT !.mgrLast = ev, !.mgrRepeat = @ \/ s.mgrLast = ev]

\* const disconnect = () => { if (this._channel) { ... emit('disconnected') } }
disconnect(s) ==
  IF s.cached # 0 THEN mgrEmit([s EXCEPT !.cached = 0], "disconnected") ELSE s

\* A race in which the promise that settles last decides.
RaceSettleLast(c, how, val) == [c EXCEPT !.out = how, !.val = val]

\* Promise.race([timeout, waitChannel]): the first promise to settle decides.
RaceSettle(c, how, val) ==
  IF c.out = "pending" THEN [c EXCEPT !.out = how, !.val = val] ELSE c

\* onReady of one channel() call: off('ready', onReady); resolve(state.channel)
onReady(c, ch) ==
  IF c.listening
    THEN [RaceSettle(c, "resolved", ch) EXCEPT !.listening = FALSE]
    ELSE c

\* A 'ready' that reaches only the waiter registered first.
ReadyListenersFirstOnly(s, ch) ==
  LET waiting == {k \in DOMAIN s.callers : s.callers[k].listening}
  IN  [mgrEmit([s EXCEPT !.cached = ch], "connected")
         EXCEPT !.callers = [k \in DOMAIN s.callers |->
                               IF k \in waiting /\ \A j \in waiting : k <= j
                                 THEN onReady(s.callers[k], ch)
                                 ELSE s.callers[k]]]

\* fsm.on('ready', ...) of the constructor, then every onReady still registered.
ReadyListeners(s, ch) ==
  [mgrEmit([s EXCEPT !.cached = ch], "connected")
     EXCEPT !.callers = [k \in DOMAIN s.callers |-> onReady(s.callers[k], ch)]]

\* fsm.on('close', ...) of the constructor, then every onClosed still registered.
CloseListeners(s) ==
  LET s1 == disconnect([s EXCEPT !.closed = TRUE])
  IN  [s1 EXCEPT !.closeCalls =
         [k \in DOMAIN s.closeCalls |->
            IF s.closeCalls[k] = "pending" THEN "resolved" ELSE s.closeCalls[k]]]

\* machina's emit: the listeners run synchronously, in registration order.
Emit(s, ev, arg) ==
  LET s1 == [s EXCEPT !.fsmLast = [ev |-> ev, arg |-> arg, wait |-> 0,
                                   resolved |-> ev # "reconnect" /\ @.resolved],
                      !.readies = IF ev = "ready" THEN @ + 1 ELSE @]
  IN  CASE ev = "ready" -> ReadyListeners(s1, arg)
        [] ev = "reconnect" -> disconnect(s1)
        [] ev = "error" -> disconnect(s1)
        [] ev = "close" -> CloseListeners(s1)
        [] OTHER -> s1

-----------------------------------------------------------------------------
(* AmqpConnectionFsm.                                                       *)

\* A channel stops: its pending declarations are rejected, and it emits
\* nothing from then on (its listeners no longer matter).
ChanStopped(ch) ==
  IF ch.status = "open"
    THEN [ch EXCEPT !.status = "closed",
                    !.listener = FALSE,
                    !.stage = IF @ \in InProgress THEN "failed" ELSE @,
                    !.pending = {},
                    !.done = {}]
    ELSE ch

\* A transport connection stops, and its channel with it.
ConnStopped(s, i) ==
  [s EXCEPT !.conns[i] = [open |-> FALSE, listener |-> FALSE],
            !.chans[i] = ChanStopped(@)]

cleanHandlers(s) ==
  LET s1 == IF s.memory.connection # 0
              THEN [s EXCEPT !.conns[s.memory.connection].listener = FALSE]
              ELSE s
  IN  IF s1.memory.channel # 0
        THEN [s1 EXCEPT !.chans[s1.memory.channel].listener = FALSE]
        ELSE s1

\* connection.close(): the transport connection and its channel stop.  A
\* 'close' the channel still emits finds the FSM in 'close', which handles
\* no input.
ConnectionClose(s, i) == ConnStopped(s, i)

connectEnter(s) == [s EXCEPT !.connecting = @ + 1]

assertEnter(s) ==
  [s EXCEPT !.chans[s.memory.connection].status = "creating"]

connectedEnter(s) == Emit(s, "ready", s.memory.channel)

\* A backoff that doubles without the 60 s cap.
waitTimeUncapped(reconnects) == (2 ^ reconnects) * 100

\* Math.min(Math.pow(2, reconnects) * 100, 60 * 1000)
waitTimeMs(reconnects) ==
  IF (2 ^ reconnects) * 100 < 60 * 1000 THEN (2 ^ reconnects) * 100 ELSE 60 * 1000

reconnectEnter(s) ==
  LET reconnects == s.memory.reconnects + 1
      wait == waitTimeMs(reconnects)
      s1 == [Emit(s, "reconnect", reconnects) EXCEPT !.fsmLast.wait = wait]
  IN  [s1 EXCEPT !.timers = @ (+) SetToBag({[reconnects |-> reconnects,
                                              wait |-> wait]})]

errorEnter(s) == Emit(cleanHandlers(s), "error", 0)

closeEnter(s) ==
  LET s1 == cleanHandlers(s)
      s2 == IF s1.memory.connection # 0
              THEN ConnectionClose(s1, s1.memory.connection)
              ELSE s1
  IN  Emit(s2, "close", 0)

\* machina's transition(): nothing when the target is the current state,
\* otherwise the target's _onEnter runs.
transition(s, new) ==
  IF new = s.state THEN s
  ELSE LET s1 == [s EXCEPT !.state = new]
       IN  CASE new = "connect" -> connectEnter(s1)
             [] new = "assert" -> assertEnter(s1)
             [] new = "connected" -> connectedEnter(s1)
             [] new = "reconnect" -> reconnectEnter(s1)
             [] new = "error" -> errorEnter(s1)
             [] new = "close" -> closeEnter(s1)
             [] OTHER -> s1

\* machina's handle(): the current state's handler for the input, if any.
\* In 'uninitialized' every input is deferred and replayed in 'idle'.
\* fatal: the error message matches /PRECONDITION-FAILED/i.
handle(s, input, fatal) ==
  LET st == IF s.state = "uninitialized" THEN "idle" ELSE s.state
      s0 == [s EXCEPT !.state = st]
  IN  CASE st = "idle" /\ input = "open" -> transition(s0, "connect")
        [] st = "connect" /\ input \in {"connection_error", "error"} ->
             transition(s0, "reconnect")
        [] st = "assert" /\ input \in {"connection_error", "channel_close"} ->
             transition(s0, "reconnect")
        [] st = "assert" /\ input = "channel_error" ->
             IF fatal THEN Emit([s0 EXCEPT !.fatalSeen = TRUE], "error", 0)
             ELSE transition(s0, "reconnect")
        [] st = "connected" /\ input \in {"channel_error", "connection_error",
                                          "channel_close"} ->
             transition(s0, "reconnect")
        [] OTHER -> s0

\* An open() that starts connecting from whatever state the machine is in.
fsmOpenAlways(s) == transition([s EXCEPT !.fsmOpens = @ + 1], "connect")

fsmOpen(s) == handle([s EXCEPT !.fsmOpens = @ + 1], "open", FALSE)

fsmClose(s) == transition(s, "close")


-----------------------------------------------------------------------------
(* AmqpManager: the public operations.                                      *)

\* One channel() call: the outcome of the promise it returned.
NewCaller(out, val, waits) ==
  [ out |-> out, val |-> val,
    timer |-> waits,        \* the 2000 ms timer is pending
    listening |-> waits ]   \* onReady is registered on the FSM

\* channel() without the test of this.closed.
channelIgnoringClosed(s) ==
  IF s.cached # 0
    THEN [s EXCEPT !.callers = Append(@, NewCaller("resolved", s.cached, FALSE))]
  ELSE LET s1 == IF ~s.started THEN fsmOpen([s EXCEPT !.started = TRUE]) ELSE s
       IN  [s1 EXCEPT !.callers = Append(@, NewCaller("pending", 0, TRUE))]

\* AmqpManager.prototype.channel
channel(s) ==
  IF s.closed
    THEN [s EXCEPT !.callers = Append(@, NewCaller("closed", 0, FALSE))]
  ELSE IF s.cached # 0
    THEN [s EXCEPT !.callers = Append(@, NewCaller("resolved", s.cached, FALSE))]
  ELSE LET s1 == IF ~s.started THEN fsmOpen([s EXCEPT !.started = TRUE]) ELSE s
       IN  [s1 EXCEPT !.callers = Append(@, NewCaller("pending", 0, TRUE))]

\* AmqpManager.prototype.close: fsm.close() runs before onClosed is registered.
close(s) ==
  LET s1 == fsmClose(s)
  IN  [s1 EXCEPT !.closeCalls = Append(@, "pending")]

\* setTimeout(() => reject(new Error('Channel Timeout')), 2000)
channelTimeout(s, c) ==
  [s EXCEPT !.callers[c] = [RaceSettle(@, "timeout", 0) EXCEPT !.timer = FALSE]]

-----------------------------------------------------------------------------
(* Continuations of the transport client's promises and events.             *)

\* Amqp.connect(...).then(connection => ...)
connectResolved(s) ==
  LET n == Len(s.conns) + 1
      s1 == [s EXCEPT !.connecting = @ - 1,
                      !.conns = Append(@, [open |-> TRUE, listener |-> TRUE]),
                      !.chans = Append(@, NoChan),
                      !.memory.connection = n,
                      !.memory.reconnects = 0,
                      !.fsmLast.resolved = TRUE]
  IN  transition(s1, "assert")

\* Amqp.connect(...).then(_, error => this.handle('error', error))
connectRejected(s) ==
  handle([s EXCEPT !.connecting = @ - 1], "error", FALSE)

\* assertTopology: the next collection whose declarations are still to issue;
\* an empty collection (Promise.all([])) completes at once.
StageOps(stage) ==
  CASE stage = "exchanges" -> config.exchanges
    [] stage = "queues" -> config.queues
    [] stage = "bindings" -> config.bindings
    [] OTHER -> {}

NextStage(stage) ==
  CASE stage = "exchanges" -> "queues"
    [] stage = "queues" -> "bindings"
    [] OTHER -> "done"

FirstStage(stage) ==
  IF stage = "done" \/ StageOps(stage) # {} THEN stage
  ELSE IF NextStage(stage) = "done" \/ StageOps(NextStage(stage)) # {}
    THEN NextStage(stage)
  ELSE IF StageOps(NextStage(NextStage(stage))) # {}
    THEN NextStage(NextStage(stage))
  ELSE "done"

\* Issue the declarations of `stage` on channel i, or, when all three
\* collections are through, run .then(() => this.transition('connected')).
assertTopology(s, i, stage) ==
  LET st == FirstStage(stage)
      s1 == [s EXCEPT !.chans[i].stage = st,
                      !.chans[i].pending = @ \cup StageOps(st)]
  IN  IF st = "done" THEN transition(s1, "connected") ELSE s1

\* this.memory.connection[channelType]().then(channel => ...)
channelCreated(s, i) ==
  LET s1 == [s EXCEPT !.chans[i].status = "open",
                      !.chans[i].listener = TRUE,
                      !.memory.channel = i]
  IN  assertTopology(s1, i, "exchanges")

\* this.memory.connection[channelType]().then(_, error => handle('channel_error'))
channelRejected(s, i) ==
  handle([s EXCEPT !.chans[i].status = "closed"], "channel_error", FALSE)

\* A chain that moves on to the next collection as soon as one declaration
\* of the current collection has completed.
declaredEager(s, i, op) ==
  LET s1 == [s EXCEPT !.chans[i].pending = @ \ {op},
                      !.chans[i].done = @ \cup {op}]
  IN  assertTopology(s1, i, NextStage(s1.chans[i].stage))

\* One declaration of the current collection completes on channel i.
declared(s, i, op) ==
  LET s1 == [s EXCEPT !.chans[i].pending = @ \ {op},
                      !.chans[i].done = @ \cup {op}]
  IN  IF s1.chans[i].pending = {}
        THEN assertTopology(s1, i, NextStage(s1.chans[i].stage))
        ELSE s1

\* channel.on('error', ...) then channel.on('close', ...): the server closes
\* channel i with an error; amqplib emits 'error' and then 'close'.
channelFailed(s, i, fatal) ==
  LET s1 == [s EXCEPT !.chans[i] = ChanStopped(@)]
  IN  IF s.chans[i].listener
        THEN handle(handle(s1, "channel_error", fatal), "channel_close", FALSE)
        ELSE s1

\* connection.on('error', ...): transport connection i drops; with withError
\* amqplib emits 'error' on it; its channel then emits 'close'; a channel
\* request still in flight on it is rejected in the same turn, which runs
\* the rejection handler of assert._onEnter.
connectionFailed(s, i, withError) ==
  LET s1 == ConnStopped(s, i)
      s2 == IF withError /\ s.conns[i].listener
              THEN handle(s1, "connection_error", FALSE) ELSE s1
      s3 == IF s.chans[i].status = "open" /\ s.chans[i].listener
              THEN handle(s2, "channel_close", FALSE) ELSE s2
  IN  IF s.chans[i].status = "creating" THEN channelRejected(s3, i) ELSE s3

\* A timer callback that stores the count and leaves the machine where it is.
reconnectTimerStays(s, r) ==
  [s EXCEPT !.timers = @ (-) SetToBag({r}),
            !.memory.reconnects = r.reconnects]

\* setTimeout(() => { _.assign(this.memory, {reconnects}); transition('connect') })
reconnectTimer(s, r) ==
  transition([s EXCEPT !.timers = @ (-) SetToBag({r}),
                       !.memory.reconnects = r.reconnects], "connect")

-----------------------------------------------------------------------------
(* The state machine.                                                       *)

Constructed(topology) ==
  /\ config = topology
  /\ state = "uninitialized"
  /\ memory = [connection |-> 0, channel |-> 0, reconnects |-> 0]
  /\ timers = EmptyBag
  /\ connecting = 0
  /\ conns = << >>
  /\ chans = << >>
  /\ faults = 0
  /\ fsmLast = [ev |-> "none", arg |-> 0, wait |-> 0, resolved |-> FALSE]
  /\ readies = 0
  /\ fatalSeen = FALSE
  /\ closed = FALSE
  /\ cached = 0
  /\ started = FALSE
  /\ callers = << >>
  /\ closeCalls = << >>
  /\ mgrLast = "none"
  /\ mgrRepeat = FALSE
  /\ fsmOpens = 0

Init == Constructed(ExampleTopology)

InitMgr == Constructed(DefaultTopology)

Fault(s) == [s EXCEPT !.faults = @ + 1]

ChannelCall ==
  /\ Len(callers) < MaxCallers
  /\ Commit(channel(St))

ChannelTimeout ==
  \E c \in DOMAIN callers :
    /\ callers[c].timer
    /\ Commit(channelTimeout(St, c))

CloseCall ==
  /\ Len(closeCalls) < MaxCloseCalls
  /\ Commit(close(St))

ConnectResolve ==
  /\ connecting > 0
  /\ Commit(connectResolved(St))

ConnectReject(maxFaults) ==
  /\ connecting > 0
  /\ faults < maxFaults
  /\ Commit(connectRejected(Fault(St)))

CreateChannelResolve ==
  \E i \in DOMAIN chans :
    /\ chans[i].status = "creating"
    /\ conns[i].open
    /\ Commit(channelCreated(St, i))

\* Rejected because the connection was closed by close() (the rejection comes
\* with the end of the closing handshake), or by an injected failure.
CreateChannelReject(maxFaults) ==
  \E i \in DOMAIN chans :
    /\ chans[i].status = "creating"
    /\ \/ /\ ~conns[i].open
          /\ Commit(channelRejected(St, i))
       \/ /\ conns[i].open
          /\ faults < maxFaults
          /\ Commit(channelRejected(Fault(St), i))

DeclareOk ==
  \E i \in DOMAIN chans :
    /\ chans[i].status = "open"
    /\ \E op \in chans[i].pending : Commit(declared(St, i, op))

\* fatal (PRECONDITION-FAILED) is the broker's answer to a declaration, so it
\* needs a declaration in flight.
ChannelFail(maxFaults) ==
  \E i \in DOMAIN chans, fatal \in BOOLEAN :
    /\ chans[i].status = "open"
    /\ fatal => chans[i].stage \in InProgress
    /\ faults < maxFaults
    /\ Commit(channelFailed(Fault(St), i, fatal))

ConnectionFail(maxFaults) ==
  \E i \in DOMAIN conns, withError \in BOOLEAN :
    /\ conns[i].open
    /\ faults < maxFaults
    /\ Commit(connectionFailed(Fault(St), i, withError))

ReconnectTimer ==
  \E r \in BagToSet(timers) : Commit(reconnectTimer(St, r))

\* The lifecycle with the example topology.
Next ==
  \/ ChannelCall
  \/ ChannelTimeout
  \/ CloseCall
  \/ ConnectResolve
  \/ ConnectReject(MaxFaults)
  \/ CreateChannelResolve
  \/ CreateChannelReject(MaxFaults)
  \/ DeclareOk
  \/ ChannelFail(MaxFaults)
  \/ ConnectionFail(MaxFaults)
  \/ ReconnectTimer

Spec == Init /\ [][Next]_vars

\* The manager over a lifecycle with the default configuration: no
\* declaration is ever issued, so the channel is ready once it is created.
MgrNext ==
  \/ ChannelCall
  \/ ChannelTimeout
  \/ CloseCall
  \/ ConnectResolve
  \/ ConnectReject(MgrFaults)
  \/ CreateChannelResolve
  \/ CreateChannelReject(MgrFaults)
  \/ ChannelFail(MgrFaults)
  \/ ConnectionFail(MgrFaults)
  \/ ReconnectTimer

MgrSpec == InitMgr /\ [][MgrNext]_vars

\* fsm.open() called on the lifecycle directly.
FsmOpen ==
  /\ fsmOpens < MaxOpens
  /\ Commit(fsmOpen(St))

\* The backoff: a transport that refuses every connect attempt.
BackoffNext ==
  \/ FsmOpen
  \/ CloseCall
  \/ ConnectReject(MaxAttempts)
  \/ ReconnectTimer

BackoffSpec == InitMgr /\ [][BackoffNext]_vars

\* The lifecycle driven directly (open() and close() at any moment), with the
\* default configuration.
FsmNext ==
  \/ FsmOpen
  \/ CloseCall
  \/ ConnectResolve
  \/ ConnectReject(FsmFaults)
  \/ CreateChannelResolve
  \/ CreateChannelReject(FsmFaults)
  \/ ChannelFail(FsmFaults)
  \/ ConnectionFail(FsmFaults)
  \/ ReconnectTimer

FsmSpec == InitMgr /\ [][FsmNext]_vars

\* The lifecycle opened once and never closed, with the default
\* configuration and a transport that may fail more often.
DeepNext ==
  \/ ChannelCall
  \/ ConnectResolve
  \/ ConnectReject(DeepFaults)
  \/ CreateChannelResolve
  \/ CreateChannelReject(DeepFaults)
  \/ ChannelFail(DeepFaults)
  \/ ConnectionFail(DeepFaults)
  \/ ReconnectTimer

DeepSpec == InitMgr /\ [][DeepNext]_vars

\* The topology assertion: a configuration with several declarations per
\* collection, and channels that fail while it is asserted.
InitTopo == Constructed(TwoTopology)

TopoNext ==
  \/ FsmOpen
  \/ ConnectResolve
  \/ CreateChannelResolve
  \/ DeclareOk
  \/ ChannelFail(TopoFaults)
  \/ ReconnectTimer

TopoSpec == InitTopo /\ [][TopoNext]_vars

\* A channel fails with an error that is not PRECONDITION-FAILED.
ChannelLoss(maxFaults) ==
  \E i \in DOMAIN chans :
    /\ chans[i].status = "open"
    /\ faults < maxFaults
    /\ Commit(channelFailed(Fault(St), i, FALSE))

\* Recovery: the lifecycle opened and never closed, with the example
\* topology and a transport that fails a bounded number of times, at any
\* stage, and succeeds from then on.  Node's event loop runs every expired
\* timer and every settled promise, hence the weak fairness of the timers
\* and of the successful completions.
LiveNext ==
  \/ FsmOpen
  \/ ConnectResolve
  \/ ConnectReject(LiveFaults)
  \/ CreateChannelResolve
  \/ CreateChannelReject(LiveFaults)
  \/ DeclareOk
  \/ ChannelLoss(LiveFaults)
  \/ ConnectionFail(LiveFaults)
  \/ ReconnectTimer

LiveSpec ==
  /\ Init
  /\ [][LiveNext]_vars
  /\ WF_vars(ConnectResolve)
  /\ WF_vars(CreateChannelResolve)
  /\ WF_vars(DeclareOk)
  /\ WF_vars(ReconnectTimer)

-----------------------------------------------------------------------------
(* The simpler lifecycle of src/unnamed/part_000: connect, connected,       *)
(* disconnect, reconnect; no channel, no topology, no manager.  It uses the *)
(* variables state, memory, timers, connecting, conns, faults, fsmLast,     *)
(* closed, closeCalls and fsmOpens.                                         *)

liteEmit(s, ev, arg, wait) ==
  [s EXCEPT !.fsmLast = [ev |-> ev, arg |-> arg, wait |-> wait,
                         resolved |-> @.resolved]]

liteConnectEnter(s) == [s EXCEPT !.connecting = @ + 1]

\* The two listeners are registered on memory.connection at every entry.
liteConnectedEnter(s) ==
  liteEmit([s EXCEPT !.conns[s.memory.connection] =
                       [open |-> @.open, listener |-> @.open]],
           "connected", s.memory.connection, 0)

liteReconnectEnter(s) ==
  LET reconnects == s.memory.reconnects + 1
      wait == waitTimeMs(reconnects)
      s1 == liteEmit(s, "reconnect_waiting", reconnects, wait)
  IN  [s1 EXCEPT !.timers = @ (+) SetToBag({[reconnects |-> reconnects,
                                              wait |-> wait]})]

\* removeAllListeners() and close() on the held connection, 'disconnected',
\* then 'reconnect' unless closed.
liteDisconnectEnter(s) ==
  LET c == s.memory.connection
      s1 == IF c # 0
              THEN [s EXCEPT !.conns[c] = [open |-> FALSE, listener |-> FALSE]]
              ELSE s
      s2 == liteEmit(s1, "disconnected", 0, 0)
  IN  IF ~s2.closed
        THEN liteReconnectEnter([s2 EXCEPT !.state = "reconnect"])
        ELSE s2

liteTransition(s, new) ==
  IF new = s.state THEN s
  ELSE LET s1 == [s EXCEPT !.state = new]
       IN  CASE new = "connect" -> liteConnectEnter(s1)
             [] new = "connected" -> liteConnectedEnter(s1)
             [] new = "disconnect" -> liteDisconnectEnter(s1)
             [] new = "reconnect" -> liteReconnectEnter(s1)
             [] OTHER -> s1

\* The inputs deferred by deferAndTransition('disconnect') find no handler
\* in 'disconnect' and are dropped.
liteHandle(s, input) ==
  LET st == IF s.state = "uninitialized" THEN "idle" ELSE s.state
      s0 == [s EXCEPT !.state = st]
  IN  CASE st = "idle" /\ input = "open" -> liteTransition(s0, "connect")
        [] st = "connect" /\ input = "error" ->
             liteTransition(s0, "disconnect")
        [] st = "connected" /\ input \in {"connection_error",
                                           "connection_close"} ->
             liteTransition(s0, "disconnect")
        [] OTHER -> s0

liteOpen(s) == liteHandle([s EXCEPT !.fsmOpens = @ + 1], "open")

liteClose(s) ==
  liteTransition([s EXCEPT !.closed = TRUE,
                           !.closeCalls = Append(@, "returned")], "disconnect")

\* Amqp.connect(...).then(connection => ...)
liteConnectResolved(s) ==
  LET n == Len(s.conns) + 1
      s1 == [s EXCEPT !.connecting = @ - 1,
                      !.conns = Append(@, [open |-> TRUE, listener |-> FALSE]),
                      !.memory.connection = n,
                      !.memory.reconnects = 0,
                      !.fsmLast.resolved = TRUE]
  IN  liteTransition(s1, "connected")

\* Amqp.connect(...).then(_, error => this.handle('error', error))
liteConnectRejected(s) ==
  liteHandle([s EXCEPT !.connecting = @ - 1], "error")

\* Transport connection i drops; a connection with listeners emits 'error'
\* (withError) and 'close', and the first of them detaches the listeners.
liteConnectionFailed(s, i, withError) ==
  LET s1 == [s EXCEPT !.conns[i].open = FALSE]
  IN  IF s.conns[i].listener
        THEN liteHandle(s1, IF withError THEN "connection_error"
                                         ELSE "connection_close")
        ELSE [s1 EXCEPT !.conns[i].listener = FALSE]

\* setTimeout(() => { emit('reconnecting'); assign; transition('connect') })
liteReconnectTimer(s, r) ==
  LET s1 == liteEmit([s EXCEPT !.timers = @ (-) SetToBag({r})],
                     "reconnecting", r.reconnects, r.wait)
  IN  liteTransition([s1 EXCEPT !.memory.reconnects = r.reconnects], "connect")

LiteOpen ==
  /\ fsmOpens < MaxOpens
  /\ Commit(liteOpen(St))

LiteClose ==
  /\ Len(closeCalls) < MaxCloseCalls
  /\ Commit(liteClose(St))

LiteConnectResolve ==
  /\ connecting > 0
  /\ Commit(liteConnectResolved(St))

LiteConnectReject ==
  /\ connecting > 0
  /\ faults < LiteFaults
  /\ Commit(liteConnectRejected(Fault(St)))

LiteConnectionFail ==
  \E i \in DOMAIN conns, withError \in BOOLEAN :
    /\ conns[i].open
    /\ faults < LiteFaults
    /\ Commit(liteConnectionFailed(Fault(St), i, withError))

LiteReconnectTimer ==
  \E r \in BagToSet(timers) : Commit(liteReconnectTimer(St, r))

LiteNext ==
  \/ LiteOpen
  \/ LiteClose
  \/ LiteConnectResolve
  \/ LiteConnectReject
  \/ LiteConnectionFail
  \/ LiteReconnectTimer

LiteSpec == InitMgr /\ [][LiteNext]_vars

-----------------------------------------------------------------------------
(* Properties.                                                              *)

CloseInvoked == Len(closeCalls) > 0

OpenConns == {i \in DOMAIN conns : conns[i].open}

OpenChans == {i \in DOMAIN chans : chans[i].status = "open"}

\* C1: once close() has been invoked the machine is never in 'connect'
\* again (a pending reconnect timer starts no new connect attempt).
C1_NoConnectAfterClose == CloseInvoked => state # "connect"

\* C2: at most one transport connection obtained from Amqp.connect is open
\* and at most one channel is open, in every reachable state.
C2_AtMostOneHandle ==
  Cardinality(OpenConns) <= 1 /\ Cardinality(OpenChans) <= 1

\* C3: when close() is invoked while a connect or a channel-open / topology
\* assertion is in flight, its completion leaves the machine in 'close', the
\* connection it produced is closed, and no 'ready' follows the 'close'.
\* Without an injected failure no timer exists, so whatever moves the machine
\* after close() is the completion of an operation that was in flight then.
C3_CloseAbsorbsCompletion ==
  (CloseInvoked /\ faults = 0) =>
     (state = "close" /\ fsmLast.ev # "ready" /\ OpenConns = {})

\* C4: after a PRECONDITION-FAILED channel error met while asserting, the
\* machine is in the terminal 'error' state (or closed by close()), never in
\* 'reconnect' or 'connect'.
C4_FatalIsTerminal == fatalSeen => state \in {"error", "close"}

\* C5: once the lifecycle is in its closed state, no promise returned by a
\* close() call is still pending.
C5_CloseResolves ==
  state = "close" => \A k \in DOMAIN closeCalls : closeCalls[k] # "pending"

\* C6: after close() has been invoked, a channel() call is rejected with the
\* closed error at once: it returns no cached channel, registers no 'ready'
\* waiter and triggers no lifecycle open().
C6_RejectsAfterClose ==
  [][CloseInvoked =>
       /\ fsmOpens' = fsmOpens
       /\ started' = started
       /\ \A c \in DOMAIN callers' :
            IF c \in DOMAIN callers
              THEN callers'[c].listening => callers[c].listening
              ELSE callers'[c] = NewCaller("closed", 0, FALSE)]_vars

\* C6 witness: a call made after close() was rejected as closed, in a run in
\* which the lifecycle went on and the manager holds a cached channel.
C6_Witness ==
  \E c \in DOMAIN callers : callers[c].out = "closed" /\ cached # 0

\* C7: a 'ready' event resolves every caller still waiting with the channel
\* that event carries, and the callers that wait were started by exactly one
\* lifecycle open().
C7_ReadyResolvesAllWaiters ==
  [][/\ fsmOpens' <= 1
     /\ \A c \in DOMAIN callers' : callers'[c].listening => fsmOpens' = 1
     /\ readies' > readies =>
          \A c \in DOMAIN callers :
            (callers[c].listening /\ callers[c].out = "pending") =>
               /\ callers'[c].out = "resolved"
               /\ callers'[c].val = fsmLast'.arg
               /\ fsmLast'.arg = memory'.channel]_vars

\* C7 witness: two callers that waited were resolved by the first 'ready'
\* with the same channel.
C7_Witness ==
  /\ readies = 1
  /\ \E c, d \in DOMAIN callers :
       /\ c # d
       /\ callers[c].out = "resolved" /\ callers[c].timer
       /\ callers[d].out = "resolved" /\ callers[d].timer
       /\ callers[c].val = callers[d].val
       /\ callers[c].val = fsmLast.arg

\* C8: a waiting channel() call whose 2000 ms timer fires before any 'ready'
\* is rejected with the timeout error, and a settled call keeps its outcome:
\* resolved by 'ready' or rejected by the timeout, never both.
C8_SettlesOnce ==
  [][\A c \in DOMAIN callers :
       /\ callers[c].out # "pending" =>
            (callers'[c].out = callers[c].out /\ callers'[c].val = callers[c].val)
       /\ (callers[c].out = "pending" /\ callers[c].timer /\ ~callers'[c].timer) =>
            callers'[c].out = "timeout"]_vars

\* C8 witness: a call was rejected by its timeout, a later 'ready' ran its
\* onReady, and the outcome is still the timeout.
C8_Witness ==
  \E c \in DOMAIN callers :
    callers[c].out = "timeout" /\ ~callers[c].listening /\ readies > 0

\* C9: the channel a 'ready' event carries belongs to the connection the
\* lifecycle currently holds and has all its declarations completed.
C9_ReadyAfterTopology ==
  (state = "connected" /\ fsmLast.ev = "ready") =>
     (chans[fsmLast.arg].stage = "done" /\ fsmLast.arg = memory.connection)

\* C10: the manager's 'connected' and 'disconnected' events alternate, and
\* a channel is cached exactly between a 'connected' and the next
\* 'disconnected'.
C10_EventsAlternate ==
  ~mgrRepeat /\ (cached # 0 <=> mgrLast = "connected")

\* The wait times of attempts 1..9, written out; from attempt 10 on the
\* wait is capped at one minute.
BackoffTable == << 200, 400, 800, 1600, 3200, 6400, 12800, 25600, 51200 >>

ExpectedWait(n) == IF n <= Len(BackoffTable) THEN BackoffTable[n] ELSE 60000

\* C12: the wait time a 'reconnect' event announces for attempt N, and the
\* delay of the backoff timer set for it, is min(2^N * 100, 60000) ms:
\* 200 for N = 1, doubling up to N = 9, and 60000 from N = 10 on.
C12_BackoffWait ==
  /\ fsmLast.ev = "reconnect" => fsmLast.wait = ExpectedWait(fsmLast.arg)
  /\ \A t \in BagToSet(timers) : t.wait = ExpectedWait(t.reconnects)

\* C12 witness: the 20th attempt in a row is announced with the capped
\* wait, and its timer is pending.
C12_Witness ==
  /\ fsmLast = [ev |-> "reconnect", arg |-> 20, wait |-> 60000,
                resolved |-> FALSE]
  /\ [reconnects |-> 20, wait |-> 60000] \in BagToSet(timers)

\* C19: the first open(), issued in 'uninitialized', takes the machine
\* (through 'idle') to 'connect' and starts one connect attempt; an open()
\* issued in any other state changes neither the state nor the session
\* memory and starts no connect attempt.
C19_OpenIdempotent ==
  [][fsmOpens' > fsmOpens =>
       IF state = "uninitialized"
         THEN state' = "connect" /\ connecting' = connecting + 1
         ELSE /\ state' = state
              /\ memory' = memory
              /\ connecting' = connecting
              /\ timers' = timers
              /\ conns' = conns
              /\ chans' = chans]_vars

\* C19 witness: open() was issued after close() had closed a machine that
\* had never been opened (no attempt was ever started, so the open() came
\* second), and the machine is still in 'close' with nothing in flight.
C19_Witness ==
  /\ state = "close"
  /\ fsmOpens = 1
  /\ connecting = 0
  /\ conns = << >>
  /\ faults = 0

\* C18: on every channel, a queue declaration is issued (in flight or
\* completed) only when every exchange declaration has completed, a binding
\* only when every exchange and every queue declaration has completed, and a
\* channel whose assertion failed has no declaration in flight.
C18_TopologySequenced ==
  \A i \in DOMAIN chans :
    LET issued == chans[i].pending \cup chans[i].done
    IN  /\ issued \cap config.queues # {} => config.exchanges \subseteq chans[i].done
        /\ issued \cap config.bindings # {} =>
              (config.exchanges \cup config.queues) \subseteq chans[i].done
        /\ chans[i].stage = "failed" => chans[i].pending = {}

\* C18 witness: one channel failed during its assertion, and a later channel
\* has its binding in flight after both exchanges and both queues completed.
C18_Witness ==
  \E i, j \in DOMAIN chans :
    /\ i < j
    /\ chans[i].stage = "failed"
    /\ chans[j].stage = "bindings"
    /\ chans[j].pending = config.bindings
    /\ chans[j].done = config.exchanges \cup config.queues
    /\ Cardinality(config.exchanges) = 2

\* C14: while the machine is in 'reconnect', no connection and no channel
\* of an earlier attempt is still open or still has the machine's listeners
\* attached (entering 'reconnect' detached and closed them), so none of
\* them can drive the machine later.
C14_ReconnectReleasesHandles ==
  state = "reconnect" =>
    /\ \A i \in DOMAIN conns : ~conns[i].open /\ ~conns[i].listener
    /\ \A i \in DOMAIN chans : chans[i].status # "open" /\ ~chans[i].listener

\* A step that enters 'reconnect' (each entry sets one more backoff timer).
EntersReconnect == BagCardinality(timers') > BagCardinality(timers)

\* C15: when the event the machine emitted last is a 'reconnect' (so no
\* 'ready' came since: 'connected' was not reached), the next 'reconnect'
\* carries a greater attempt count and a wait that is not shorter.
C15_CountGrowsUntilConnected ==
  [][(EntersReconnect /\ fsmLast.ev = "reconnect") =>
       (fsmLast'.arg > fsmLast.arg /\ fsmLast'.wait >= fsmLast.wait)]_vars

\* A step in which the channel of the attempt the machine holds fails: its
\* creation is rejected, or the open channel is closed by an error of a
\* declaration, of the channel or of its connection.
HeldChannelFails ==
  /\ faults' > faults
  /\ memory.connection # 0
  /\ chans[memory.connection].status \in {"creating", "open"}
  /\ chans'[memory.connection].status = "closed"

\* C17: a failure of the held channel met in 'assert' leaves 'assert': a
\* PRECONDITION-FAILED error takes the machine to 'error', any other failure
\* to 'reconnect'.
C17_AssertFailureClassified ==
  [][(state = "assert" /\ HeldChannelFails) =>
       IF fatalSeen' /\ ~fatalSeen
         THEN state' = "error"
         ELSE state' = "reconnect"]_vars

\* A step in which a handle the machine holds in its session memory is lost
\* to a failure: the connection (with or without an 'error') or the channel.
HeldHandleStops ==
  /\ faults' > faults
  /\ \/ /\ memory.connection # 0
        /\ conns[memory.connection].open
        /\ ~conns'[memory.connection].open
     \/ /\ memory.channel # 0
        /\ chans[memory.channel].status = "open"
        /\ chans'[memory.channel].status = "closed"

\* C16: while the machine is in 'connected', the loss of the connection or
\* of the channel it holds, whether announced by 'error' or by 'close',
\* takes it to 'reconnect' and leaves the manager without a cached channel.
C16_LossLeadsToReconnect ==
  [][(state = "connected" /\ HeldHandleStops) =>
       (state' = "reconnect" /\ cached' = 0)]_vars

\* A connect attempt of the machine in 'connect' is rejected.
ConnectAttemptFails ==
  /\ state = "connect"
  /\ connecting' = connecting - 1
  /\ Len(conns') = Len(conns)

\* C11: in a run of failed connect attempts (the last event was 'reconnect'
\* with count n and no attempt succeeded since) the next failed attempt is
\* announced with a greater count, and after a successful transport connect
\* the stored counter is 0 and the first failure announced from then on
\* carries count 1.
C11_CountRestartsAfterConnect ==
  [][/\ (Len(conns') > Len(conns)) => memory'.reconnects = 0
     /\ (EntersReconnect /\ fsmLast.resolved) => fsmLast'.arg = 1
     /\ (EntersReconnect /\ ConnectAttemptFails /\ fsmLast.ev = "reconnect"
           /\ ~fsmLast.resolved) => fsmLast'.arg > fsmLast.arg]_vars

\* An operation the machine is waiting for: a timer, a connect attempt, a
\* channel request or a declaration.
InFlight ==
  \/ timers # EmptyBag
  \/ connecting > 0
  \/ \E i \in DOMAIN chans :
        \/ chans[i].status = "creating"
        \/ chans[i].status = "open" /\ chans[i].pending # {}

\* C13: once opened and never closed, with no fatal error and a transport
\* that eventually stops failing, the lifecycle is in 'connected' with
\* 'ready' as its last event again and again, whatever stage the failures
\* hit; and whenever it is in 'connect', 'assert' or 'reconnect' a timer or
\* an operation is pending.
C13_RecoversToConnected ==
  /\ [](state \in {"connect", "assert", "reconnect"} => InFlight)
  /\ (fsmOpens > 0) ~> (state = "connected" /\ fsmLast.ev = "ready")

\* C13 witness: the machine is back in 'connected' after the transport has
\* failed as often as it may, the last time on an established session.
C13_Witness ==
  /\ state = "connected"
  /\ fsmLast.ev = "ready"
  /\ faults = LiveFaults
  /\ readies >= 2
  /\ ~InFlight

\* C20: in the simpler lifecycle, a machine in 'disconnect' or 'reconnect'
\* holds no open connection and no listener on it, it rests in 'disconnect'
\* only when closed (otherwise it went on to 'reconnect'), and once close()
\* was invoked it is never in 'connect' or 'connected' and 'connected' is
\* not the event it emitted last.
C20_DisconnectThenStaysClosed ==
  /\ (state \in {"disconnect", "reconnect"} /\ memory.connection # 0) =>
        (~conns[memory.connection].open /\ ~conns[memory.connection].listener)
  /\ (state = "disconnect") => closed
  /\ closed => (state \notin {"connect", "connected"} /\ fsmLast.ev # "connected")

=============================================================================
